---- MODULE Spec2Model ----
(***************************************************************************)
(* Model of the Daily Stoic page parser (src/pdf_parsing/parser.py).       *)
(*                                                                         *)
(* Strings are sequences of Unicode code points, so that indexing,         *)
(* slicing, str.strip, str.isupper and str.splitlines are computed         *)
(* character by character as Python computes them.  A call that raises is  *)
(* a result whose err field names the exception.                           *)
(***************************************************************************)
EXTENDS Integers, Sequences, FiniteSets, TLC

(* ------------------------------------------------------------------ *)
(* Module constants of parser.py                                      *)
(* ------------------------------------------------------------------ *)
FIRST_STOIC_PAGE == 14

LAST_STOIC_PAGE == 392

SKIP_NON_STOIC_PAGES == {45, 75, 107, 138, 139, 171, 202, 234, 266, 267, 298, 330, 361}

MIN_QUOTE_SOURCE_LENGTH == 5

START_QUOTE_SYMBOL == 8220

END_QUOTE_SYMBOL == 8221

START_SOURCE_SYMBOL == 8212

(* ------------------------------------------------------------------ *)
(* Characters and Python's str primitives                             *)
(* ------------------------------------------------------------------ *)
UPPER == <<"A","B","C","D","E","F","G","H","I","J","K","L","M",
           "N","O","P","Q","R","S","T","U","V","W","X","Y","Z">>

LOWER == <<"a","b","c","d","e","f","g","h","i","j","k","l","m",
           "n","o","p","q","r","s","t","u","v","w","x","y","z">>

DIGIT == <<"0","1","2","3","4","5","6","7","8","9">>

\* Code point of a one-character literal (the characters the inputs use).
Ord(c) ==
    CASE \E i \in 1..26 : UPPER[i] = c -> 64 + (CHOOSE i \in 1..26 : UPPER[i] = c)
      [] \E i \in 1..26 : LOWER[i] = c -> 96 + (CHOOSE i \in 1..26 : LOWER[i] = c)
      [] \E i \in 1..10 : DIGIT[i] = c -> 47 + (CHOOSE i \in 1..10 : DIGIT[i] = c)
      [] c = " " -> 32
      [] c = "#" -> 35
      [] c = "," -> 44
      [] c = "." -> 46

\* A string literal, written as a tuple of one-character literals.
Str(cs) == [i \in 1..Len(cs) |-> Ord(cs[i])]

Min(a, b) == IF a < b THEN a ELSE b

Max(a, b) == IF a > b THEN a ELSE b

\* Cased characters (the ASCII letters are the only cased ones the inputs use).
IsUpperChar(c) == c \in 65..90

IsLowerChar(c) == c \in 97..122

\* Characters str.strip() removes.
IsSpaceChar(c) == c \in {9, 10, 11, 12, 13, 28, 29, 30, 31, 32, 133, 160}

\* Characters str.splitlines() breaks at.
IsLineBreak(c) == c \in {10, 11, 12, 13, 28, 29, 30, 133, 8232, 8233}

\* Mutant: uppercase whenever no character is lowercase, cased characters or none.
isupper_no_lowercase(s) == \A i \in 1..Len(s) : ~IsLowerChar(s[i])

\* str.isupper(): at least one cased character, and no cased character is lowercase.
isupper(s) ==
    /\ \E i \in 1..Len(s) : IsUpperChar(s[i])
    /\ \A i \in 1..Len(s) : ~IsLowerChar(s[i])

\* s[a:b] for 0 <= a, 0 <= b: a slice never raises.
Slice(s, a, b) == IF Min(b, Len(s)) <= a THEN <<>> ELSE SubSeq(s, a + 1, Min(b, Len(s)))

\* s[a:]
SliceFrom(s, a) == Slice(s, a, Len(s))

\* s[:-n]
DropLast(s, n) == Slice(s, 0, Max(Len(s) - n, 0))

\* str.strip()
strip(s) ==
    IF \A i \in 1..Len(s) : IsSpaceChar(s[i]) THEN <<>>
    ELSE LET first == CHOOSE i \in 1..Len(s) :
                          ~IsSpaceChar(s[i]) /\ \A j \in 1..(i - 1) : IsSpaceChar(s[j])
             last == CHOOSE i \in 1..Len(s) :
                          ~IsSpaceChar(s[i]) /\ \A j \in (i + 1)..Len(s) : IsSpaceChar(s[j])
         IN SubSeq(s, first, last)

\* text.replace("\t", " ")
ReplaceTabs(s) == [i \in 1..Len(s) |-> IF s[i] = 9 THEN 32 ELSE s[i]]

RECURSIVE SplitFrom(_, _, _)
\* str.splitlines() from position i on: acc holds the lines read so far.  A line
\* ends at a line break ("\r\n" is one break); no empty line follows the last break.
SplitFrom(s, i, acc) ==
    IF i > Len(s) THEN acc
    ELSE LET breaks == {j \in i..Len(s) : IsLineBreak(s[j])}
         IN IF breaks = {} THEN Append(acc, SubSeq(s, i, Len(s)))
            ELSE LET j == CHOOSE k \in breaks : \A m \in breaks : k <= m
                     width == IF s[j] = 13 /\ j < Len(s) /\ s[j + 1] = 10 THEN 2 ELSE 1
                 IN SplitFrom(s, j + width, Append(acc, SubSeq(s, i, j - 1)))

splitlines(s) == SplitFrom(s, 1, <<>>)

RECURSIVE join(_, _)
\* sep.join(parts)
join(sep, parts) ==
    IF parts = <<>> THEN <<>>
    ELSE IF Len(parts) = 1 THEN parts[1]
    ELSE parts[1] \o sep \o join(sep, Tail(parts))

(* ------------------------------------------------------------------ *)
(* Results: a returned value, or the exception the call raised        *)
(* ------------------------------------------------------------------ *)
Return(v) == [err |-> "", val |-> v]

Raise(e) == [err |-> e, val |-> <<>>]

Raised(r) == r.err # ""

(* ------------------------------------------------------------------ *)
(* Parser._apply_quotes                                               *)
(* ------------------------------------------------------------------ *)
apply_quotes(quote) ==
    IF Len(quote) = 0 THEN Raise("IndexError")    \* quote[0] of an empty string
    ELSE LET q1 == IF quote[1] # START_QUOTE_SYMBOL
                   THEN <<START_QUOTE_SYMBOL>> \o quote ELSE quote
             q2 == IF q1[Len(q1)] # END_QUOTE_SYMBOL
                   THEN q1 \o <<END_QUOTE_SYMBOL>> ELSE q1
         IN Return(q2)

(* ------------------------------------------------------------------ *)
(* Parser._is_end_of_quote                                            *)
(* ------------------------------------------------------------------ *)
\* Mutant: the test without its last rule, so a source that lost its dash no
\* longer ends the quote.
is_end_of_quote_needs_dash(line, next_line) ==
    IF Len(line) = 0 THEN Raise("IndexError")
    ELSE IF line[Len(line)] = END_QUOTE_SYMBOL THEN Return(TRUE)
    ELSE IF Len(next_line) = 0 THEN Raise("IndexError")
    ELSE Return(/\ next_line[1] = START_SOURCE_SYMBOL
                /\ isupper(Slice(next_line, 1, MIN_QUOTE_SOURCE_LENGTH + 1)))

is_end_of_quote(line, next_line) ==
    IF Len(line) = 0 THEN Raise("IndexError")     \* line[-1] of an empty string
    ELSE IF line[Len(line)] = END_QUOTE_SYMBOL THEN Return(TRUE)
    ELSE IF Len(next_line) = 0 THEN Raise("IndexError")   \* next_line[0]
    ELSE Return(
           \/ /\ next_line[1] = START_SOURCE_SYMBOL
              /\ isupper(Slice(next_line, 1, MIN_QUOTE_SOURCE_LENGTH + 1))
           \/ isupper(Slice(next_line, 0, MIN_QUOTE_SOURCE_LENGTH)))

(* ------------------------------------------------------------------ *)
(* Parser._parse_letter_date_title                                    *)
(* ------------------------------------------------------------------ *)
RECURSIVE TitleEnd(_, _)
\* The while loop of lines 208-210, from 0-based index: the index it stops at,
\* or -1 when lines[index] runs past the end of the list.
TitleEnd(lines, index) ==
    IF index >= Len(lines) THEN -1
    ELSE IF isupper(lines[index + 1]) THEN TitleEnd(lines, index + 1)
    ELSE index

RECURSIVE Concat(_)
\* "".join(parts)
Concat(parts) == IF parts = <<>> THEN <<>> ELSE parts[1] \o Concat(Tail(parts))

\* Mutant: the length test made on the trimmed first line.
HasFirstLetter_trimmed(lines) == Len(strip(lines[1])) = 1 \/ Len(strip(lines[1])) = 2

\* Whether lines[0] is taken as the first letter of the explanation (line 199).
HasFirstLetter(lines) == Len(lines[1]) = 1 \/ Len(lines[1]) = 2

\* Mutant: the date line trimmed but not cut.
DateOf_uncut(line) == strip(line)

\* date = lines[index].strip()[:-2] (line 203)
DateOf(line) == DropLast(strip(line), 2)

\* Mutant: the title lines joined with a space.
TitleOf_spaced(title_lines) == strip(join(<<32>>, title_lines))

\* title = "".join(title_lines).strip() (line 211)
TitleOf(title_lines) == strip(Concat(title_lines))

parse_letter_date_title(lines) ==
    IF Len(lines) = 0 THEN Raise("IndexError")            \* lines[0]
    ELSE
      LET index1 == IF HasFirstLetter(lines) THEN 1 ELSE 0
          explanation_first_letter ==
              IF HasFirstLetter(lines) THEN strip(lines[1]) ELSE <<>>
      IN IF index1 >= Len(lines) THEN Raise("IndexError")  \* lines[index], line 203
         ELSE
           LET date == DateOf(lines[index1 + 1])
               index2 == index1 + 1
               index3 == TitleEnd(lines, index2)
           IN IF index3 = -1 THEN Raise("IndexError")      \* lines[index], line 208
              ELSE Return([explanation_first_letter |-> explanation_first_letter,
                           date |-> date,
                           title |-> TitleOf(Slice(lines, index2, index3)),
                           remaining_lines |-> SliceFrom(lines, index3)])

(* ------------------------------------------------------------------ *)
(* Parser._parse_page_text                                            *)
(* ------------------------------------------------------------------ *)
\* The locals of the scan as the for loop of line 147 is entered.  quote_source
\* is unbound until quote_source_found is set (its value is then <<>> here).
ScanInit ==
    [quote_lines |-> <<>>, explanation_lines |-> <<>>,
     quote_found |-> FALSE, quote_source_found |-> FALSE,
     quote_source |-> <<>>, err |-> ""]

\* Mutant: a line is taken as quote_source only when it starts with the dash.
IsSourceLine_needs_dash(line) == line[1] = START_SOURCE_SYMBOL

\* The test of lines 158-159 on a non-empty line.
IsSourceLine(line) ==
    \/ line[1] = START_SOURCE_SYMBOL
    \/ isupper(Slice(line, 0, MIN_QUOTE_SOURCE_LENGTH))

\* Mutant: the continue of line 166 lost, the quote_source line going on to line 168.
ScanStep_no_continue(st, remaining_lines, index) ==
    LET line == strip(remaining_lines[index + 1])
    IN IF ~st.quote_found
       THEN LET st1 == [st EXCEPT !.quote_lines = Append(@, line)]
            IN IF index + 1 >= Len(remaining_lines)
               THEN [st1 EXCEPT !.err = "IndexError"]     \* remaining_lines[index + 1]
               ELSE LET r == is_end_of_quote(line, strip(remaining_lines[index + 2]))
                    IN IF Raised(r) THEN [st1 EXCEPT !.err = r.err]
                       ELSE [st1 EXCEPT !.quote_found = r.val]
       ELSE IF ~st.quote_source_found
       THEN IF Len(line) = 0 THEN [st EXCEPT !.err = "IndexError"]   \* line[0]
            ELSE IF IsSourceLine(line)
                 THEN [st EXCEPT
                         !.quote_source =
                             strip(<<START_SOURCE_SYMBOL>> \o
                                   (IF line[1] = START_SOURCE_SYMBOL
                                    THEN SliceFrom(line, 1) ELSE line)),
                         !.quote_source_found = TRUE,
                         !.explanation_lines = Append(@, line)]
                 ELSE [st EXCEPT !.explanation_lines = Append(@, line)]
       ELSE [st EXCEPT !.explanation_lines = Append(@, line)]

\* One iteration of the for loop (lines 147-168) on remaining_lines[index].
ScanStep(st, remaining_lines, index) ==
    LET line == strip(remaining_lines[index + 1])
    IN IF ~st.quote_found
       THEN LET st1 == [st EXCEPT !.quote_lines = Append(@, line)]
            IN IF index + 1 >= Len(remaining_lines)
               THEN [st1 EXCEPT !.err = "IndexError"]     \* remaining_lines[index + 1]
               ELSE LET r == is_end_of_quote(line, strip(remaining_lines[index + 2]))
                    IN IF Raised(r) THEN [st1 EXCEPT !.err = r.err]
                       ELSE [st1 EXCEPT !.quote_found = r.val]
       ELSE IF ~st.quote_source_found
       THEN IF Len(line) = 0 THEN [st EXCEPT !.err = "IndexError"]   \* line[0]
            ELSE IF IsSourceLine(line)
                 THEN [st EXCEPT
                         !.quote_source =
                             strip(<<START_SOURCE_SYMBOL>> \o
                                   (IF line[1] = START_SOURCE_SYMBOL
                                    THEN SliceFrom(line, 1) ELSE line)),
                         !.quote_source_found = TRUE]
                 ELSE [st EXCEPT !.explanation_lines = Append(@, line)]
       ELSE [st EXCEPT !.explanation_lines = Append(@, line)]

RECURSIVE ScanFrom(_, _, _)
\* The for loop from iteration index on; it stops at the first exception.
ScanFrom(st, remaining_lines, index) ==
    IF st.err # "" \/ index >= Len(remaining_lines) THEN st
    ELSE ScanFrom(ScanStep(st, remaining_lines, index), remaining_lines, index + 1)

\* Mutant: the first letter joined to the explanation lines with a space.
ScanResult_spaced(first_lines_data, st) ==
    LET quote == apply_quotes(strip(join(<<32>>, st.quote_lines)))
        explanation == strip(join(<<32>>, <<first_lines_data.explanation_first_letter>>
                                          \o st.explanation_lines))
    IN IF Raised(quote) THEN Raise(quote.err)
       ELSE IF ~st.quote_source_found THEN Raise("UnboundLocalError")
       ELSE Return([date |-> first_lines_data.date,
                    content |-> [title |-> first_lines_data.title,
                                 quote |-> quote.val,
                                 quote_source |-> st.quote_source,
                                 explanation |-> explanation]])

\* Lines 170-183: the fields built once the loop has ended.
ScanResult(first_lines_data, st) ==
    LET quote == apply_quotes(strip(join(<<32>>, st.quote_lines)))
        explanation == strip(first_lines_data.explanation_first_letter
                             \o join(<<32>>, st.explanation_lines))
    IN IF Raised(quote) THEN Raise(quote.err)
       ELSE IF ~st.quote_source_found THEN Raise("UnboundLocalError")  \* quote_source
       ELSE Return([date |-> first_lines_data.date,
                    content |-> [title |-> first_lines_data.title,
                                 quote |-> quote.val,
                                 quote_source |-> st.quote_source,
                                 explanation |-> explanation]])

parse_page_text(text) ==
    LET lines == splitlines(ReplaceTabs(text))
        first_lines_data == parse_letter_date_title(lines)
    IN IF Raised(first_lines_data) THEN Raise(first_lines_data.err)
       ELSE LET st == ScanFrom(ScanInit, first_lines_data.val.remaining_lines, 0)
            IN IF st.err # "" THEN Raise(st.err)
               ELSE ScanResult(first_lines_data.val, st)

(* ------------------------------------------------------------------ *)
(* Inputs                                                             *)
(* ------------------------------------------------------------------ *)
\* Longest string handed to _apply_quotes.
MaxQuoteLen == 3

\* Longest current line handed to _is_end_of_quote.
MaxLineLen == 2

\* How far past the MIN_QUOTE_SOURCE_LENGTH window a next line may reach.
WindowSlack == 1

\* Most lines handed to _parse_letter_date_title.
MaxHeaderLines == 4

\* Most body lines (after the header) of a page handed to _parse_page_text.
MaxBodyLines == 4

\* Most lines of a short page of a document.
MaxShortLines == 4

\* Pages a short document holds from FIRST_STOIC_PAGE on.
TailPages == 2

\* Pages a long document holds past LAST_STOIC_PAGE.
ExtraPages == 2

\* All strings over chars of length 0..n.
Strings(chars, n) == UNION {[1..k -> chars] : k \in 0..n}

\* All lists over pool of length 0..n.
Lists(pool, n) == UNION {[1..k -> pool] : k \in 0..n}

QuoteStrings ==
    Strings({START_QUOTE_SYMBOL, END_QUOTE_SYMBOL, START_SOURCE_SYMBOL, 97, 32},
            MaxQuoteLen)

CurrentLines == Strings({97, END_QUOTE_SYMBOL}, MaxLineLen)

NextLines ==
    {prefix \o body :
        prefix \in {<<>>, <<START_SOURCE_SYMBOL>>},
        body \in Strings({65, 97, 49}, MIN_QUOTE_SOURCE_LENGTH + WindowSlack)}

\* The lines of the two header tests (test_parser_result.py, lines 51-61 and 80-93).
TestHeaderLines1 ==
    << Str(<<"E">>),
       Str(<<"J","a","n","u","a","r","y"," ","1","s","t">>),
       Str(<<"E","X","P","E","C","T","E","D"," ","T","I","T","L","E">>),
       <<START_QUOTE_SYMBOL>> \o Str(<<"E","x","p","e","c","t","e","d"," ","q","u","o","t","e">>),
       Str(<<"e","x","p","e","c","t","e","d"," ","q","u","o","t","e">>) \o <<END_QUOTE_SYMBOL>>,
       <<START_SOURCE_SYMBOL>> \o Str(<<"E","X","P","E","C","T","E","D"," ","S","O","U","R","C","E">>),
       Str(<<"x","p","e","c","t","e","d"," ","e","x","p","l","a","n","a","t","i","o","n">>),
       Str(<<"e","x","p","e","c","t","e","d"," ","e","x","p","l","a","n","a","t","i","o","n">>),
       Str(<<"e","x","p","e","c","t","e","d"," ","e","x","p","l","a","n","a","t","i","o","n",".">>) >>

TestHeaderLines2 ==
    << Str(<<"#","E">>),
       Str(<<"J","a","n","u","a","r","y"," ","1","s","t">>),
       Str(<<"E","X","P">>), Str(<<"E","C","T">>),
       Str(<<"E","D"," ","T","I">>), Str(<<"T","L","E">>) >>
    \o SubSeq(TestHeaderLines1, 4, 9)

\* Lines a page may open with: a first letter, a blank of length 1, a first letter
\* behind two spaces, a date, title parts (one ending in a space), a quote line,
\* an empty line and a line with no cased character.
HeaderLinePool ==
    { Str(<<"E">>), Str(<<" ">>), Str(<<" "," ","E">>),
      Str(<<"M","a","y"," ","1","s","t">>),
      Str(<<"E","X","P">>), Str(<<"E","D"," ">>),
      <<START_QUOTE_SYMBOL>> \o Str(<<"q">>) \o <<END_QUOTE_SYMBOL>>,
      <<>>, Str(<<"1","2">>) }

HeaderInputs ==
    Lists(HeaderLinePool, MaxHeaderLines) \cup {TestHeaderLines1, TestHeaderLines2}

\* The indentation of the page texts of test__parse_page_text.
Indent == [i \in 1..10 |-> 32]

\* The page texts of test__parse_page_text (test_parser_result.py, lines 114-123
\* and 134-142): every line but the first is indented, and a line of spaces ends the text.
TestPageText1 ==
    join(<<10>>, <<TestHeaderLines1[1]>>
                 \o [i \in 1..8 |-> Indent \o TestHeaderLines1[i + 1]]
                 \o <<SubSeq(Indent, 1, 8)>>)

TestPageText2 ==
    join(<<10>>,
         << TestHeaderLines1[2],
            Indent \o TestHeaderLines1[3],
            Indent \o TestHeaderLines1[4],
            Indent \o Str(<<"e","x","p","e","c","t","e","d"," ","q","u","o","t","e">>),
            Indent \o Str(<<"E","X","P","E","C","T","E","D"," ","S","O","U","R","C","E">>),
            Indent \o Str(<<"E","x","p","e","c","t","e","d"," ","e","x","p","l","a","n","a","t","i","o","n">>),
            Indent \o TestHeaderLines1[8],
            Indent \o TestHeaderLines1[9],
            SubSeq(Indent, 1, 8) >>)

\* Headers a page may open with: first letter, date and title; date and title;
\* a date alone; a first letter behind a tab, a date holding a tab and a two-line title.
PageHeaders ==
    { << Str(<<"E">>), Str(<<"M","a","y"," ","1","s","t">>), Str(<<"T","I","T","L","E">>) >>,
      << Str(<<"M","a","y"," ","1","s","t">>), Str(<<"T","I","T","L","E">>) >>,
      << Str(<<" ","M","a","y"," ","2","n","d"," ">>) >>,
      << <<9>> \o Str(<<"E">>), Str(<<"M","a","y">>) \o <<9>> \o Str(<<"3","r","d">>),
         Str(<<"T","I">>), Str(<<"T","L","E">>) >> }

\* Body lines: a quote opening, a quote line ending in the closing glyph, plain
\* text, a source with and without its dash, a blank line, and a line with no
\* cased character.
BodyLinePool ==
    { <<START_QUOTE_SYMBOL>> \o Str(<<"a","b">>),
      Str(<<" ","c","d">>) \o <<END_QUOTE_SYMBOL>>,
      Str(<<"e","f">>),
      <<START_SOURCE_SYMBOL>> \o Str(<<"S","E","N","E","C","A">>),
      Str(<<"S","E","N","E","C","A",",","1">>),
      <<32, 9>>,
      Str(<<"1","2",".">>) }

PageTexts ==
    {join(<<10>>, header \o body) :
        header \in PageHeaders, body \in Lists(BodyLinePool, MaxBodyLines)}
    \cup {TestPageText1, TestPageText2}

\* The text of content page n of a well-formed book: a date unique to the page,
\* and from page to page a first letter or none, a title on one line or two, and
\* the closing glyph and the source dash present or lost.
GoodText(n) ==
    LET dateLine == <<48 + (n \div 100), 48 + ((n \div 10) % 10), 48 + (n % 10)>>
                    \o Str(<<"t","h">>)
        letter == IF n % 2 = 0 THEN <<Str(<<"T">>)>> ELSE <<>>
        title == IF n % 3 = 0 THEN <<Str(<<"T","I">>), Str(<<"T","L","E">>)>>
                 ELSE <<Str(<<"T","I","T","L","E">>)>>
        body == IF n % 5 = 0
                THEN << <<START_QUOTE_SYMBOL>> \o Str(<<"a">>), Str(<<"b">>),
                        Str(<<"S","E","N","E","C","A">>), Str(<<"h","e">>) >>
                ELSE << <<START_QUOTE_SYMBOL>> \o Str(<<"a">>) \o <<END_QUOTE_SYMBOL>>,
                        <<START_SOURCE_SYMBOL>> \o Str(<<"S","E","N","E","C","A">>),
                        Str(<<"h","e">>) >>
    IN join(<<10>>, letter \o <<dateLine>> \o title \o body) \o <<10>>

\* Lines of a short page: a first letter, a date, a title, a quote line ending in
\* the closing glyph, a source, plain text and a blank line.
ShortLinePool ==
    { Str(<<"E">>), Str(<<"M","a","y"," ","1","s","t">>), Str(<<"T","I","T","L","E">>),
      Str(<<"q">>) \o <<END_QUOTE_SYMBOL>>,
      <<START_SOURCE_SYMBOL>> \o Str(<<"S","E","N","E","C","A">>),
      Str(<<"e","f">>), Str(<<" ">>) }

ShortPageTexts == {join(<<10>>, lines) : lines \in Lists(ShortLinePool, MaxShortLines)}

\* A document: its number of pages and, when odd >= 0, the one page whose text is
\* oddText instead of the well-formed text of its number.
NoOddPage == [odd |-> -1, oddText |-> <<>>]

Docs ==
    \* whole books, one of them a page short of LAST_STOIC_PAGE
    {[len |-> n] @@ NoOddPage :
        n \in {LAST_STOIC_PAGE, LAST_STOIC_PAGE + 1, LAST_STOIC_PAGE + 1 + ExtraPages}}
    \* a whole book whose last page repeats the date of the first
    \cup {[len |-> LAST_STOIC_PAGE + 1, odd |-> LAST_STOIC_PAGE,
           oddText |-> GoodText(FIRST_STOIC_PAGE)]}
    \* short documents whose second content page is a short page
    \cup {[len |-> FIRST_STOIC_PAGE + TailPages, odd |-> FIRST_STOIC_PAGE + 1,
           oddText |-> t] : t \in ShortPageTexts}

\* page.get_text() of the page numbered n
GetText(d, n) == IF n = d.odd THEN d.oddText ELSE GoodText(n)

(* ------------------------------------------------------------------ *)
(* State                                                              *)
(* ------------------------------------------------------------------ *)
VARIABLES
    op,          \* the method of Parser last called on its own ("" before any call)
    args,        \* its arguments
    ret,         \* its result
    doc,         \* the document parse_book reads
    pc,          \* parse_book: "idle", "loop", "returned" or "raised"
    pageNumber,  \* page.number of the page the loop of parse_book is at
    entries,     \* the dict parse_book builds: its items in insertion order
    result,      \* what parse_book returned to its caller
    segmented,   \* the page numbers handed to _parse_page_text, in call order
    page_text,          \* _parse_page_text followed line by line: its text argument
    scanPc,             \* "idle", "start" (line 138), "loop" (line 147), "returned" or "raised"
    first_lines_data,   \* the FirstLinesData of line 145
    index,              \* the lines of remaining_lines the for loop has been through
    quote_lines,        \* the locals of lines 140-143 and 161
    explanation_lines,
    quote_found,
    quote_source_found,
    quote_source,       \* <<>> while unbound
    page_result         \* what _parse_page_text returned

unitVars == <<op, args, ret>>

bookVars == <<doc, pc, pageNumber, entries, result, segmented>>

scanVars == <<page_text, scanPc, first_lines_data, index, quote_lines, explanation_lines,
              quote_found, quote_source_found, quote_source, page_result>>

vars == <<op, args, ret, doc, pc, pageNumber, entries, result, segmented,
          page_text, scanPc, first_lines_data, index, quote_lines, explanation_lines,
          quote_found, quote_source_found, quote_source, page_result>>

UnitIdle == op = "" /\ args = <<>> /\ ret = Return(<<>>)

BookIdle ==
    /\ doc = [len |-> 0] @@ NoOddPage
    /\ pc = "idle"
    /\ pageNumber = 0
    /\ entries = <<>>
    /\ result = <<>>
    /\ segmented = <<>>

\* No FirstLinesData yet.
NoFirstLines ==
    [explanation_first_letter |-> <<>>, date |-> <<>>, title |-> <<>>,
     remaining_lines |-> <<>>]

\* Lines 140-143: the locals before the loop.
ScanLocalsFresh ==
    /\ index = 0
    /\ quote_lines = ScanInit.quote_lines
    /\ explanation_lines = ScanInit.explanation_lines
    /\ quote_found = ScanInit.quote_found
    /\ quote_source_found = ScanInit.quote_source_found
    /\ quote_source = ScanInit.quote_source

ScanIdle ==
    /\ page_text = <<>>
    /\ scanPc = "idle"
    /\ first_lines_data = NoFirstLines
    /\ ScanLocalsFresh
    /\ page_result = <<>>

(* ------------------------------------------------------------------ *)
(* The methods called on their own, as the unit tests call them: one  *)
(* call on a fresh Parser per behaviour (the methods keep no state)   *)
(* ------------------------------------------------------------------ *)
Init == UnitIdle /\ BookIdle /\ ScanIdle

Call_apply_quotes ==
    /\ op = ""
    /\ \E quote \in QuoteStrings :
        /\ op' = "apply_quotes"
        /\ args' = <<quote>>
        /\ ret' = apply_quotes(quote)
        /\ UNCHANGED <<bookVars, scanVars>>

Call_is_end_of_quote ==
    /\ op = ""
    /\ \E line \in CurrentLines, next_line \in NextLines :
        /\ op' = "is_end_of_quote"
        /\ args' = <<line, next_line>>
        /\ ret' = is_end_of_quote(line, next_line)
        /\ UNCHANGED <<bookVars, scanVars>>

Call_parse_letter_date_title ==
    /\ op = ""
    /\ \E lines \in HeaderInputs :
        /\ op' = "parse_letter_date_title"
        /\ args' = <<lines>>
        /\ ret' = parse_letter_date_title(lines)
        /\ UNCHANGED <<bookVars, scanVars>>

Call_parse_page_text ==
    /\ op = ""
    /\ \E text \in PageTexts :
        /\ op' = "parse_page_text"
        /\ args' = <<text>>
        /\ ret' = parse_page_text(text)
        /\ UNCHANGED <<bookVars, scanVars>>

Next ==
    \/ Call_apply_quotes
    \/ Call_is_end_of_quote
    \/ Call_parse_letter_date_title
    \/ Call_parse_page_text

Spec == Init /\ [][Next]_vars

(* ------------------------------------------------------------------ *)
(* Parser.parse_book                                                  *)
(* ------------------------------------------------------------------ *)
\* entries[date] = content: a new key goes last, a known key keeps its place.
DictSet(d, key, value) ==
    IF \E i \in 1..Len(d) : d[i].key = key
    THEN [i \in 1..Len(d) |-> IF d[i].key = key THEN [key |-> key, value |-> value] ELSE d[i]]
    ELSE Append(d, [key |-> key, value |-> value])

InitBook ==
    /\ UnitIdle
    /\ ScanIdle
    /\ doc \in Docs
    /\ pc = "loop"
    /\ pageNumber = 0
    /\ entries = <<>>
    /\ result = <<>>
    /\ segmented = <<>>

\* page.number < FIRST_STOIC_PAGE (line 115)
BeforeFirstPage(n) == n < FIRST_STOIC_PAGE

\* Mutant: the loop left one page early.
AfterLastPage_early(n) == n >= LAST_STOIC_PAGE

\* page.number > LAST_STOIC_PAGE (line 117)
AfterLastPage(n) == n > LAST_STOIC_PAGE

\* page.number in SKIP_NON_STOIC_PAGES (line 119)
IsSkippedPage(n) == n \in SKIP_NON_STOIC_PAGES

\* for page in f: the document has no page left (line 114), return entries (line 126)
EndOfDocument ==
    /\ pc = "loop"
    /\ pageNumber >= doc.len
    /\ pc' = "returned"
    /\ result' = entries
    /\ UNCHANGED <<doc, pageNumber, entries, segmented, op, args, ret, scanVars>>

\* lines 115-116
SkipFrontPage ==
    /\ pc = "loop"
    /\ pageNumber < doc.len
    /\ BeforeFirstPage(pageNumber)
    /\ pageNumber' = pageNumber + 1
    /\ UNCHANGED <<doc, pc, entries, result, segmented, op, args, ret, scanVars>>

\* lines 117-118, then line 126
BreakAfterLastPage ==
    /\ pc = "loop"
    /\ pageNumber < doc.len
    /\ ~BeforeFirstPage(pageNumber)
    /\ AfterLastPage(pageNumber)
    /\ pc' = "returned"
    /\ result' = entries
    /\ UNCHANGED <<doc, pageNumber, entries, segmented, op, args, ret, scanVars>>

\* lines 119-120
SkipNonStoicPage ==
    /\ pc = "loop"
    /\ pageNumber < doc.len
    /\ ~BeforeFirstPage(pageNumber)
    /\ ~AfterLastPage(pageNumber)
    /\ IsSkippedPage(pageNumber)
    /\ pageNumber' = pageNumber + 1
    /\ UNCHANGED <<doc, pc, entries, result, segmented, op, args, ret, scanVars>>

\* The page reaches line 122.
IsSegmented(n) == ~BeforeFirstPage(n) /\ ~AfterLastPage(n) /\ ~IsSkippedPage(n)

\* lines 122-124: the page is segmented and its entry stored
SegmentPage ==
    /\ pc = "loop"
    /\ pageNumber < doc.len
    /\ IsSegmented(pageNumber)
    /\ LET parsed == parse_page_text(GetText(doc, pageNumber))
       IN /\ ~Raised(parsed)
          /\ entries' = DictSet(entries, parsed.val.date, parsed.val.content)
    /\ segmented' = Append(segmented, pageNumber)
    /\ pageNumber' = pageNumber + 1
    /\ UNCHANGED <<doc, pc, result, op, args, ret, scanVars>>

\* Mutant: the exception of line 122 swallowed, the loop going on to the next page.
SegmentPageRaises_swallowed ==
    /\ pc = "loop"
    /\ pageNumber < doc.len
    /\ ~BeforeFirstPage(pageNumber) /\ ~AfterLastPage(pageNumber) /\ ~IsSkippedPage(pageNumber)
    /\ Raised(parse_page_text(GetText(doc, pageNumber)))
    /\ segmented' = Append(segmented, pageNumber)
    /\ pageNumber' = pageNumber + 1
    /\ UNCHANGED <<doc, pc, entries, result, op, args, ret, scanVars>>

\* Mutant: the exception of line 122 caught, and the entries built so far returned.
SegmentPageRaises_partial ==
    /\ pc = "loop"
    /\ pageNumber < doc.len
    /\ ~BeforeFirstPage(pageNumber) /\ ~AfterLastPage(pageNumber) /\ ~IsSkippedPage(pageNumber)
    /\ Raised(parse_page_text(GetText(doc, pageNumber)))
    /\ segmented' = Append(segmented, pageNumber)
    /\ pc' = "returned"
    /\ result' = entries
    /\ UNCHANGED <<doc, pageNumber, entries, op, args, ret, scanVars>>

\* line 122 raises: the exception leaves parse_book, which returns nothing
SegmentPageRaises ==
    /\ pc = "loop"
    /\ pageNumber < doc.len
    /\ IsSegmented(pageNumber)
    /\ Raised(parse_page_text(GetText(doc, pageNumber)))
    /\ segmented' = Append(segmented, pageNumber)
    /\ pc' = "raised"
    /\ UNCHANGED <<doc, pageNumber, entries, result, op, args, ret, scanVars>>

NextBook ==
    \/ EndOfDocument
    \/ SkipFrontPage
    \/ BreakAfterLastPage
    \/ SkipNonStoicPage
    \/ SegmentPage
    \/ SegmentPageRaises

SpecBook == InitBook /\ [][NextBook]_vars

(* ------------------------------------------------------------------ *)
(* Parser._parse_page_text, line by line                              *)
(* ------------------------------------------------------------------ *)
InitScan ==
    /\ UnitIdle
    /\ BookIdle
    /\ page_text \in PageTexts
    /\ scanPc = "start"
    /\ first_lines_data = NoFirstLines
    /\ ScanLocalsFresh
    /\ page_result = <<>>

\* The locals of the loop, as ScanStep takes them.
ScanLocals ==
    [quote_lines |-> quote_lines, explanation_lines |-> explanation_lines,
     quote_found |-> quote_found, quote_source_found |-> quote_source_found,
     quote_source |-> quote_source, err |-> ""]

\* The locals after the iteration on remaining_lines[index].
ScanStepped == ScanStep(ScanLocals, first_lines_data.remaining_lines, index)

\* The locals take the values the iteration left.
ScanAssign(st) ==
    /\ quote_lines' = st.quote_lines
    /\ explanation_lines' = st.explanation_lines
    /\ quote_found' = st.quote_found
    /\ quote_source_found' = st.quote_source_found
    /\ quote_source' = st.quote_source

\* lines 138-145: the header is extracted
ScanHeader ==
    /\ scanPc = "start"
    /\ LET header == parse_letter_date_title(splitlines(ReplaceTabs(page_text)))
       IN /\ ~Raised(header)
          /\ first_lines_data' = header.val
    /\ scanPc' = "loop"
    /\ UNCHANGED <<page_text, index, quote_lines, explanation_lines, quote_found,
                   quote_source_found, quote_source, page_result, unitVars, bookVars>>

\* line 145 raises
ScanHeaderRaises ==
    /\ scanPc = "start"
    /\ Raised(parse_letter_date_title(splitlines(ReplaceTabs(page_text))))
    /\ scanPc' = "raised"
    /\ UNCHANGED <<page_text, first_lines_data, index, quote_lines, explanation_lines,
                   quote_found, quote_source_found, quote_source, page_result,
                   unitVars, bookVars>>

\* The for loop has a line left.
ScanHasLine == scanPc = "loop" /\ index < Len(first_lines_data.remaining_lines)

\* lines 148-155: the line joins quote_lines
ScanQuoteLine ==
    /\ ScanHasLine
    /\ ~quote_found
    /\ ScanStepped.err = ""
    /\ ScanAssign(ScanStepped)
    /\ index' = index + 1
    /\ UNCHANGED <<page_text, scanPc, first_lines_data, page_result, unitVars, bookVars>>

\* lines 157-166: the line is taken as quote_source
ScanSourceLine ==
    /\ ScanHasLine
    /\ quote_found /\ ~quote_source_found
    /\ ScanStepped.err = ""
    /\ ScanStepped.quote_source_found
    /\ ScanAssign(ScanStepped)
    /\ index' = index + 1
    /\ UNCHANGED <<page_text, scanPc, first_lines_data, page_result, unitVars, bookVars>>

\* line 168: the line joins explanation_lines
ScanExplanationLine ==
    /\ ScanHasLine
    /\ quote_found
    /\ ScanStepped.err = ""
    /\ ScanStepped.quote_source_found = quote_source_found
    /\ ScanAssign(ScanStepped)
    /\ index' = index + 1
    /\ UNCHANGED <<page_text, scanPc, first_lines_data, page_result, unitVars, bookVars>>

\* lines 153, 158, 228 or 230 raise: the exception leaves _parse_page_text
ScanLineRaises ==
    /\ ScanHasLine
    /\ ScanStepped.err # ""
    /\ ScanAssign(ScanStepped)
    /\ scanPc' = "raised"
    /\ UNCHANGED <<page_text, first_lines_data, index, page_result, unitVars, bookVars>>

\* The for loop is over.
ScanLoopOver == scanPc = "loop" /\ index >= Len(first_lines_data.remaining_lines)

\* lines 170-183: the fields are built and returned
ScanReturn ==
    /\ ScanLoopOver
    /\ ~Raised(ScanResult(first_lines_data, ScanLocals))
    /\ page_result' = ScanResult(first_lines_data, ScanLocals).val
    /\ scanPc' = "returned"
    /\ UNCHANGED <<page_text, first_lines_data, index, quote_lines, explanation_lines,
                   quote_found, quote_source_found, quote_source, unitVars, bookVars>>

\* line 170 or line 180 raises
ScanReturnRaises ==
    /\ ScanLoopOver
    /\ Raised(ScanResult(first_lines_data, ScanLocals))
    /\ scanPc' = "raised"
    /\ UNCHANGED <<page_text, first_lines_data, index, quote_lines, explanation_lines,
                   quote_found, quote_source_found, quote_source, page_result,
                   unitVars, bookVars>>

NextScan ==
    \/ ScanHeader
    \/ ScanHeaderRaises
    \/ ScanQuoteLine
    \/ ScanSourceLine
    \/ ScanExplanationLine
    \/ ScanLineRaises
    \/ ScanReturn
    \/ ScanReturnRaises

SpecScan == InitScan /\ [][NextScan]_vars

(* ------------------------------------------------------------------ *)
(* Properties of the methods called on their own (Spec)               *)
(* ------------------------------------------------------------------ *)
Called(name) == op = name

ReturnedFrom(name) == op = name /\ ~Raised(ret)

\* C1: quote wrapping is idempotent for every string s, the empty string
\* included: _apply_quotes(s) returns, and _apply_quotes applied to what it
\* returned returns the same string.
C1_ApplyQuotesIdempotent ==
    Called("apply_quotes") =>
        /\ ~Raised(ret)
        /\ apply_quotes(ret.val) = ret

\* What holds of _apply_quotes instead: it is idempotent on every non-empty
\* string, and raises IndexError on the empty one.
ApplyQuotesIdempotentOnNonEmpty ==
    Called("apply_quotes") =>
        IF args[1] = <<>> THEN ret = Raise("IndexError")
        ELSE ~Raised(ret) /\ apply_quotes(ret.val) = ret

(* ------------------------------------------------------------------ *)
(* Properties of parse_book (SpecBook)                                *)
(* ------------------------------------------------------------------ *)
\* The lines of the text of page n, as _parse_page_text splits them.
PageLines(n) == splitlines(ReplaceTabs(GetText(doc, n)))

\* C2 (as claimed): a page of fewer than 5 lines handed to _parse_page_text makes
\* it fault: parse_book stops at that page, and returns no aggregate.
C2_FewerThanFiveLinesFaults ==
    /\ \A i \in 1..Len(segmented) :
          Len(PageLines(segmented[i])) < 5 => (pc = "raised" /\ i = Len(segmented))
    /\ pc = "raised" => (result = <<>> /\ Len(entries) < Len(segmented))

\* C2 (amended): a page of fewer than 3 lines handed to _parse_page_text makes
\* it fault: parse_book stops at that page, which adds no entry, and returns
\* no aggregate.
C2_FewerThanThreeLinesFaults ==
    /\ \A i \in 1..Len(segmented) :
          Len(PageLines(segmented[i])) < 3 => (pc = "raised" /\ i = Len(segmented))
    /\ pc = "raised" => (result = <<>> /\ Len(entries) < Len(segmented))

\* C2 witness: parse_book has stopped at a page of two lines, with an entry of an
\* earlier page already built.
C2_Witness ==
    /\ pc = "raised"
    /\ entries # <<>>
    /\ Len(PageLines(pageNumber)) = 2
    /\ segmented[Len(segmented)] = pageNumber

\* The content pages: FIRST_STOIC_PAGE..LAST_STOIC_PAGE less the skipped ones.
ContentPages == (FIRST_STOIC_PAGE..LAST_STOIC_PAGE) \ SKIP_NON_STOIC_PAGES

\* Every content page of the document segments without fault, to a date of its own.
SegmentsToDistinctDates(d) ==
    /\ \A n \in ContentPages : n < d.len /\ ~Raised(parse_page_text(GetText(d, n)))
    /\ Cardinality({parse_page_text(GetText(d, n)).val.date : n \in ContentPages})
          = Cardinality(ContentPages)

\* C3: over a document that covers pages 0..392 and whose content pages all
\* segment without fault to distinct dates, parse_book segments exactly the
\* content pages, each once and in increasing page order, and returns 366
\* entries whose keys are the dates of those pages in that order.
C3_ParseBookAggregate ==
    (pc = "returned" /\ doc.len > LAST_STOIC_PAGE /\ SegmentsToDistinctDates(doc)) =>
        /\ {segmented[i] : i \in 1..Len(segmented)} = ContentPages
        /\ \A i \in 1..(Len(segmented) - 1) : segmented[i] < segmented[i + 1]
        /\ Len(segmented) = 366
        /\ Len(result) = 366
        /\ \A i \in 1..Len(result) :
              /\ result[i].key = parse_page_text(GetText(doc, segmented[i])).val.date
              /\ result[i].value = parse_page_text(GetText(doc, segmented[i])).val.content

\* C3 witness: parse_book has returned 366 entries from a document that goes on
\* past LAST_STOIC_PAGE.
C3_Witness ==
    /\ pc = "returned"
    /\ doc.len > LAST_STOIC_PAGE + 1
    /\ SegmentsToDistinctDates(doc)
    /\ Len(result) = 366

\* The header of the page is extracted, and no body line before the last is
\* found to end the quote: the scan reaches the last line with the quote open.
QuoteOpenAtLastLine(lines) ==
    LET header == parse_letter_date_title(lines)
    IN /\ ~Raised(header)
       /\ \A i \in 1..(Len(header.val.remaining_lines) - 1) :
             is_end_of_quote(strip(header.val.remaining_lines[i]),
                             strip(header.val.remaining_lines[i + 1])) = Return(FALSE)

\* C11: when the end of the quote has not been detected as the last line of
\* remaining_lines is processed, _parse_page_text faults (IndexError on the
\* look-ahead) and returns nothing; parse_book adds no entry for that page and
\* hands no aggregate, partial or whole, to its caller.
C11_OpenQuoteFaultsWithoutOutput ==
    [][(segmented' # segmented /\ QuoteOpenAtLastLine(PageLines(pageNumber))) =>
          /\ parse_page_text(GetText(doc, pageNumber)) = Raise("IndexError")
          /\ entries' = entries
          /\ pc' = "raised"
          /\ result' = <<>>]_vars

\* C11 witness: parse_book has stopped at a page whose quote never ends, with the
\* entry of an earlier page built and nothing returned.
C11_Witness ==
    /\ pc = "raised"
    /\ segmented # <<>> /\ segmented[Len(segmented)] = pageNumber
    /\ QuoteOpenAtLastLine(PageLines(pageNumber))
    /\ Len(parse_letter_date_title(PageLines(pageNumber)).val.remaining_lines) >= 2
    /\ entries # <<>>
    /\ result = <<>>

(* ------------------------------------------------------------------ *)
(* Properties of _parse_page_text and its helpers (Spec)              *)
(* ------------------------------------------------------------------ *)
\* The lines _parse_page_text works on.
LinesOf(text) == splitlines(ReplaceTabs(text))

\* The text of a page of the given lines, each ended by a line feed.
TextOf(lines) == join(<<10>>, lines) \o <<10>>

\* list[i] replaced by x (i counted from 1).
Replaced(list, i, x) == [list EXCEPT ![i] = x]

\* The page of lines whose body starts at line b (counted from 1), with the closing
\* glyph put at the end of body line k and the dash in front of body line k + 1.
WithBothGlyphs(lines, b, k) ==
    Replaced(Replaced(lines, b + k - 1, strip(lines[b + k - 1]) \o <<END_QUOTE_SYMBOL>>),
             b + k, <<START_SOURCE_SYMBOL>> \o strip(lines[b + k]))

\* Body line k of the page lacks the closing glyph and is followed by a plain source
\* line (first 5 characters uppercase, no dash), and k is the last quote line: with
\* both glyphs in place the page segments with body lines 1..k as its quote.
MissingGlyphsAt(lines, b, k) ==
    LET q == strip(lines[b + k - 1])
        src == strip(lines[b + k])
        whole == parse_page_text(TextOf(WithBothGlyphs(lines, b, k)))
    IN /\ q # <<>> /\ q[Len(q)] # END_QUOTE_SYMBOL
       /\ src # <<>> /\ src[1] # START_SOURCE_SYMBOL
       /\ isupper(Slice(src, 0, 5))
       /\ ~Raised(whole)
       /\ whole.val.content.quote
            = apply_quotes(join(<<32>>, [i \in 1..k |->
                  strip(WithBothGlyphs(lines, b, k)[b + i - 1])])).val

\* The places (b, k) of the page text where the two glyphs are missing.
MissingGlyphPlaces(text) ==
    LET lines == LinesOf(text)
        header == parse_letter_date_title(lines)
    IN IF Raised(header) THEN {}
       ELSE LET b == Len(lines) - Len(header.val.remaining_lines) + 1
            IN {<<b, k>> : k \in {j \in 1..(Len(header.val.remaining_lines) - 1) :
                                      MissingGlyphsAt(lines, b, j)}}

\* C4: when the last quote line lacks the closing glyph and the source line is
\* plain text with an uppercase 5-character prefix and no dash, _parse_page_text
\* returns a quote ending in the closing glyph and a quote_source that is the
\* dash followed by the source line: the fields of the same page with both
\* glyphs present.
C4_MissingGlyphsRecovered ==
    Called("parse_page_text") =>
        \A place \in MissingGlyphPlaces(args[1]) :
            LET lines == LinesOf(args[1])
                b == place[1]
                k == place[2]
            IN /\ ~Raised(ret)
               /\ ret.val.content.quote[Len(ret.val.content.quote)] = END_QUOTE_SYMBOL
               /\ ret.val.content.quote_source
                    = <<START_SOURCE_SYMBOL>> \o strip(lines[b + k])
               /\ ret = parse_page_text(TextOf(WithBothGlyphs(lines, b, k)))

\* C4 witness: the second page of test__parse_page_text (no first letter, both
\* glyphs missing) has been segmented, and another page with a first letter too.
C4_Witness ==
    /\ ReturnedFrom("parse_page_text")
    /\ MissingGlyphPlaces(args[1]) # {}
    /\ ret.val.content.explanation # <<>>

\* The first n lines of the list handed to _parse_letter_date_title are the header;
\* the date line is the first line, or the second when the first was taken as the
\* first letter (lead).
ExpectedLetter(lines, lead) == IF lead THEN strip(lines[1]) ELSE <<>>

DateLineOf(lines, lead) == IF lead THEN lines[2] ELSE lines[1]

\* A line trimmed, less its last two characters.
TrimmedLessTwo(line) ==
    LET t == strip(line) IN [i \in 1..Max(Len(t) - 2, 0) |-> t[i]]

\* The header fields a returned call shows when the first line was (lead) or was
\* not taken as the first letter.
HeaderFollows(lines, header, lead) ==
    /\ header.explanation_first_letter = ExpectedLetter(lines, lead)
    /\ header.date = TrimmedLessTwo(DateLineOf(lines, lead))
    /\ Len(header.remaining_lines) < Len(lines) - (IF lead THEN 1 ELSE 0)

\* C5 (as claimed): Stage A takes the first line as the first letter and moves
\* past it exactly when its trimmed length is 1 or 2; otherwise the first letter
\* is empty and the date comes from that first line.
C5_LeadByTrimmedLength ==
    ReturnedFrom("parse_letter_date_title") =>
        HeaderFollows(args[1], ret.val, Len(strip(args[1][1])) \in {1, 2})

\* C5 (amended): Stage A takes the first line as the first letter and moves past
\* it exactly when its length as given, untrimmed, is 1 or 2; otherwise the first
\* letter is empty and the date comes from that first line.
C5_LeadByRawLength ==
    ReturnedFrom("parse_letter_date_title") =>
        HeaderFollows(args[1], ret.val, Len(args[1][1]) \in {1, 2})

\* C5 witness: a first line of three characters that trims to one was not taken
\* as the first letter.
C5_Witness ==
    /\ ReturnedFrom("parse_letter_date_title")
    /\ Len(args[1][1]) = 3
    /\ Len(strip(args[1][1])) = 1
    /\ ret.val.explanation_first_letter = <<>>
    /\ ret.val.date = TrimmedLessTwo(args[1][1])

January1 == Str(<<"J","a","n","u","a","r","y"," ","1">>)

C7_HeaderKeepsDateLine ==
    /\ ReturnedFrom("parse_letter_date_title") =>
          ret.val.date = DateLineOf(args[1], Len(args[1][1]) \in {1, 2})
    /\ (Called("parse_letter_date_title") /\ args[1] = TestHeaderLines1) =>
          ret = Return([explanation_first_letter |-> TestHeaderLines1[1],
                        date |-> TestHeaderLines1[2],
                        title |-> TestHeaderLines1[3],
                        remaining_lines |-> SubSeq(TestHeaderLines1, 4, 9)])

\* A line with a cased character and no lowercase one.
AllUppercase(line) ==
    /\ {i \in 1..Len(line) : IsUpperChar(line[i])} # {}
    /\ {i \in 1..Len(line) : IsLowerChar(line[i])} = {}

\* C8: the title is the maximal run of all-uppercase lines that follows the date
\* line, joined with no separator and then trimmed ('EXP','ECT','ED TI','TLE'
\* give 'EXPECTED TITLE'), and remaining_lines is the rest of the input after
\* that run, unchanged and in order.
C8_TitleAndRemainingLines ==
    /\ ReturnedFrom("parse_letter_date_title") =>
          LET lines == args[1]
              rest == ret.val.remaining_lines
              dateAt == IF Len(lines[1]) \in {1, 2} THEN 2 ELSE 1
              last == Len(lines) - Len(rest)
          IN /\ last >= dateAt
             /\ rest = [i \in 1..Len(rest) |-> lines[last + i]]
             /\ \A i \in (dateAt + 1)..last : AllUppercase(lines[i])
             /\ rest # <<>> /\ ~AllUppercase(rest[1])
             /\ ret.val.title = strip(Concat(SubSeq(lines, dateAt + 1, last)))
    /\ (Called("parse_letter_date_title") /\ args[1] = TestHeaderLines2) =>
          /\ ~Raised(ret)
          /\ ret.val.title = TestHeaderLines1[3]
          /\ ret.val.remaining_lines = SubSeq(TestHeaderLines1, 4, 9)

\* C8 witness: the four-line title of the second header test was joined.
C8_Witness ==
    /\ Called("parse_letter_date_title")
    /\ args[1] = TestHeaderLines2
    /\ ret.val.title = Str(<<"E","X","P","E","C","T","E","D"," ","T","I","T","L","E">>)

\* The three rules of the end-of-quote test.
RuleA(line) == line # <<>> /\ line[Len(line)] = END_QUOTE_SYMBOL

RuleB(next_line) ==
    /\ next_line # <<>>
    /\ next_line[1] = START_SOURCE_SYMBOL
    /\ AllUppercase([i \in 1..Min(5, Len(next_line) - 1) |-> next_line[i + 1]])

RuleC(next_line) == AllUppercase([i \in 1..Min(5, Len(next_line)) |-> next_line[i]])

\* C9: _is_end_of_quote(line, next_line) is true exactly when (a) line ends in
\* the closing glyph, or (b) next_line starts with the dash and its following
\* up-to-5 characters are all uppercase, or (c) the first 5 characters of
\* next_line are all uppercase; it is false when none of the three holds.
C9_EndOfQuoteRules ==
    Called("is_end_of_quote") =>
        ret = Return(RuleA(args[1]) \/ RuleB(args[2]) \/ RuleC(args[2]))

\* What holds of _is_end_of_quote instead: the three rules give its value whenever
\* it returns, and it raises IndexError on an empty line, and on an empty
\* next_line unless rule (a) holds.
EndOfQuoteRulesWhenReturned ==
    Called("is_end_of_quote") =>
        IF args[1] = <<>> \/ (args[2] = <<>> /\ ~RuleA(args[1]))
        THEN ret = Raise("IndexError")
        ELSE ret = Return(RuleA(args[1]) \/ RuleB(args[2]) \/ RuleC(args[2]))

\* The page passes header extraction and the scan finds the end of the quote, so
\* a line lies beyond the last quote line.
StructurallyValid(text) ==
    LET header == parse_letter_date_title(LinesOf(text))
    IN /\ ~Raised(header)
       /\ ScanFrom(ScanInit, header.val.remaining_lines, 0).quote_found

\* C10: a structurally valid page never faults because of its content: with no
\* line after the quote that starts with the dash or has an uppercase prefix,
\* or with a body line that is empty once trimmed, _parse_page_text still
\* returns a result.
C10_ValidPageReturns ==
    (Called("parse_page_text") /\ StructurallyValid(args[1])) => ~Raised(ret)

\* The body lines of a page (remaining_lines), each trimmed.
TrimmedBody(text) ==
    LET rest == parse_letter_date_title(LinesOf(text)).val.remaining_lines
    IN [i \in 1..Len(rest) |-> strip(rest[i])]

\* The end of the quote is detected on body line k, which has a line after it.
EndsQuote(body, k) ==
    /\ k < Len(body)
    /\ RuleA(body[k]) \/ RuleB(body[k + 1]) \/ RuleC(body[k + 1])

\* The last quote line: the first body line on which the end of the quote is detected.
LastQuoteLine(body) ==
    CHOOSE k \in 1..Len(body) :
        EndsQuote(body, k) /\ \A j \in 1..(k - 1) : ~EndsQuote(body, j)

\* A line that can be taken as the quote_source: it starts with the dash, or its
\* first 5 characters are all uppercase.
LooksLikeSource(line) ==
    /\ line # <<>>
    /\ \/ line[1] = START_SOURCE_SYMBOL
       \/ AllUppercase([i \in 1..Min(5, Len(line)) |-> line[i]])

\* The quote_source line: the first line after the quote that looks like a source.
SourceLine(body) ==
    CHOOSE s \in (LastQuoteLine(body) + 1)..Len(body) :
        /\ LooksLikeSource(body[s])
        /\ \A j \in (LastQuoteLine(body) + 1)..(s - 1) : ~LooksLikeSource(body[j])

\* The body lines that are neither quote lines nor the quote_source line, in
\* their order.
ExplanationLinesOf(body) ==
    LET k == LastQuoteLine(body)
        s == SourceLine(body)
    IN [i \in 1..(Len(body) - k - 1) |-> body[IF k + i < s THEN k + i ELSE k + i + 1]]

ExpectedExplanation ==
    Str(<<"E","x","p","e","c","t","e","d"," ","e","x","p","l","a","n","a","t","i","o","n"," ",
          "e","x","p","e","c","t","e","d"," ","e","x","p","l","a","n","a","t","i","o","n"," ",
          "e","x","p","e","c","t","e","d"," ","e","x","p","l","a","n","a","t","i","o","n",".">>)

\* C12: the explanation _parse_page_text returns is the first letter directly
\* followed (no separator) by the explanation lines joined by single spaces,
\* then trimmed; the explanation lines are the trimmed body lines that are
\* neither quote lines nor the quote_source line, in their order ('E' and
\* 'xpected explanation', ... give 'Expected explanation ...').
C12_ExplanationAssembly ==
    /\ ReturnedFrom("parse_page_text") =>
          LET first_letter == parse_letter_date_title(LinesOf(args[1])).val.explanation_first_letter
          IN ret.val.content.explanation
                = strip(first_letter \o join(<<32>>, ExplanationLinesOf(TrimmedBody(args[1]))))
    /\ (Called("parse_page_text") /\ args[1] \in {TestPageText1, TestPageText2}) =>
          (~Raised(ret) /\ ret.val.content.explanation = ExpectedExplanation)

\* C12 witness: the first page of test__parse_page_text, whose first letter is on
\* a line of its own, gave 'Expected explanation ...' from three explanation
\* lines and a blank one.
C12_Witness ==
    /\ Called("parse_page_text")
    /\ args[1] = TestPageText1
    /\ Len(ExplanationLinesOf(TrimmedBody(args[1]))) = 4
    /\ ret.val.content.explanation = ExpectedExplanation

\* A window with no lowercase letter in it.
NoLowercase(window) == {i \in 1..Len(window) : IsLowerChar(window[i])} = {}

\* The first 5 characters of a line.
Window(line) == [i \in 1..Min(5, Len(line)) |-> line[i]]

\* The up-to-5 characters of a line that follow its first.
WindowAfterFirst(line) == [i \in 1..Min(5, Len(line) - 1) |-> line[i + 1]]

\* The line is taken as quote_source when Uppercase is the uppercase test.
TakenAsSource(Uppercase(_), line) ==
    line # <<>> /\ (line[1] = START_SOURCE_SYMBOL \/ Uppercase(Window(line)))

\* What the three places of the uppercase test show when Uppercase is the test:
\* the end-of-quote rules (b) and (c), the title run (whole lines) and the choice
\* of the quote_source line after the quote.
UppercaseTestIs(Uppercase(_)) ==
    /\ ReturnedFrom("is_end_of_quote") =>
          ret.val = \/ RuleA(args[1])
                    \/ args[2][1] = START_SOURCE_SYMBOL /\ Uppercase(WindowAfterFirst(args[2]))
                    \/ Uppercase(Window(args[2]))
    /\ ReturnedFrom("parse_letter_date_title") =>
          LET lines == args[1]
              rest == ret.val.remaining_lines
              dateAt == IF Len(lines[1]) \in {1, 2} THEN 2 ELSE 1
          IN /\ \A i \in (dateAt + 1)..(Len(lines) - Len(rest)) : Uppercase(lines[i])
             /\ ~Uppercase(rest[1])
    /\ ReturnedFrom("parse_page_text") =>
          LET body == TrimmedBody(args[1])
              k == Len(ScanFrom(ScanInit, body, 0).quote_lines)
          IN \E s \in (k + 1)..Len(body) :
                /\ TakenAsSource(Uppercase, body[s])
                /\ \A j \in (k + 1)..(s - 1) : ~TakenAsSource(Uppercase, body[j])
                /\ ret.val.content.quote_source
                     = strip(<<START_SOURCE_SYMBOL>> \o
                             (IF body[s][1] = START_SOURCE_SYMBOL
                              THEN WindowAfterFirst(body[s]) \o SliceFrom(body[s], 6)
                              ELSE body[s]))

\* C13 (as claimed): the uppercase test of the title lines (whole line) and of the
\* attribution and end-of-quote detection (5-character window) takes a window
\* as uppercase whenever it holds no lowercase letter, so a window of
\* punctuation, digits and spaces only counts as uppercase too.
C13_UppercaseIsNoLowercase == UppercaseTestIs(NoLowercase)

\* C13 (amended): the uppercase test takes a window as uppercase exactly when it
\* holds at least one uppercase letter and no lowercase letter; punctuation,
\* digits and spaces never break the test, but a window made only of them is
\* not uppercase.
C13_UppercaseNeedsUpperLetter == UppercaseTestIs(AllUppercase)

\* C13 witness: a next line of five digits did not end the quote.
C13_Witness ==
    /\ ReturnedFrom("is_end_of_quote")
    /\ ~RuleA(args[1])
    /\ Len(args[2]) = 5
    /\ \A i \in 1..5 : args[2][i] \in 48..57
    /\ ret.val = FALSE

(* ------------------------------------------------------------------ *)
(* Properties of the scan of _parse_page_text (SpecScan)              *)
(* ------------------------------------------------------------------ *)
\* The scan is between two lines, or over: no exception has left it.
ScanRunning == scanPc \in {"loop", "returned"}

\* remaining_lines[i] trimmed (i counted from 1).
TrimmedLine(i) == strip(first_lines_data.remaining_lines[i])

\* The quote_source made of a line.
SourceOf(line) ==
    strip(<<START_SOURCE_SYMBOL>> \o
          (IF line[1] = START_SOURCE_SYMBOL THEN [i \in 1..(Len(line) - 1) |-> line[i + 1]]
           ELSE line))

\* The trimmed lines q+1..index but line s, in their order.
LinesAfterQuoteBut(q, s) ==
    [i \in 1..(index - q - (IF s > 0 THEN 1 ELSE 0)) |->
        TrimmedLine(IF s > 0 /\ q + i >= s THEN q + i + 1 ELSE q + i)]

\* Every processed line is in exactly one of quote_lines, quote_source and
\* explanation_lines: quote_lines are the first lines, quote_source is one line
\* after them (none while quote_source_found is false), explanation_lines the rest.
EachLineAssignedOnce ==
    LET q == Len(quote_lines)
    IN /\ q <= index
       /\ quote_lines = [i \in 1..q |-> TrimmedLine(i)]
       /\ IF quote_source_found
          THEN \E s \in (q + 1)..index :
                  /\ TrimmedLine(s) # <<>>
                  /\ quote_source = SourceOf(TrimmedLine(s))
                  /\ explanation_lines = LinesAfterQuoteBut(q, s)
          ELSE explanation_lines = LinesAfterQuoteBut(q, 0)

\* quote_lines is not empty once a line is processed, grows while the end of the
\* quote is not found, and ends with the line the end was detected on.
QuoteLinesArePrefix ==
    LET q == Len(quote_lines)
    IN /\ index >= 1 => q >= 1
       /\ ~quote_found => q = index
       /\ quote_found =>
             /\ q >= 1 /\ q < Len(first_lines_data.remaining_lines)
             /\ is_end_of_quote(TrimmedLine(q), TrimmedLine(q + 1)) = Return(TRUE)
             /\ \A j \in 1..(q - 1) :
                   is_end_of_quote(TrimmedLine(j), TrimmedLine(j + 1)) = Return(FALSE)

\* The flags never go back, and the quote_source once taken is kept.
FlagsOnlyRise ==
    /\ quote_found => quote_found'
    /\ quote_source_found => (quote_source_found' /\ quote_source' = quote_source)

\* C14: in the scan of the body lines, after any number of processed lines,
\* quote_found and quote_source_found never go back from true to false,
\* quote_source_found implies quote_found, every processed line is in exactly
\* one of quote_lines, quote_source and explanation_lines, quote_lines is a
\* non-empty run of first lines that includes the line the end of the quote
\* was detected on, and at most one line is ever used as quote_source.
C14_ScanInvariants ==
    /\ [](ScanRunning =>
            /\ quote_source_found => quote_found
            /\ EachLineAssignedOnce
            /\ QuoteLinesArePrefix)
    /\ [][FlagsOnlyRise]_vars

\* C14 witness: the scan has been through a quote of two lines, an explanation
\* line and the quote_source line.
C14_Witness ==
    /\ scanPc = "loop"
    /\ index = 4
    /\ Len(quote_lines) = 2
    /\ quote_source_found
    /\ explanation_lines = <<TrimmedLine(3)>>
    /\ TrimmedLine(4) # <<>>
    /\ quote_source = SourceOf(TrimmedLine(4))

\* The end of the quote was detected on a line that does not end in the closing
\* glyph: the look-ahead on the next line, rule (b) or rule (c), detected it.
DetectedByLookAhead ==
    /\ scanPc \in {"loop", "returned", "raised"}
    /\ quote_found
    /\ ~RuleA(TrimmedLine(Len(quote_lines)))

\* C15: whenever the end of the quote is detected through the look-ahead on the
\* next line (rule (b) or rule (c)) and not through the closing glyph, the line
\* right after the last quote line is the one taken as quote_source (the scan
\* does not fault on it), so no line is put in the explanation before it.
C15_LookAheadLineIsSource ==
    DetectedByLookAhead =>
        LET q == Len(quote_lines)
        IN /\ RuleB(TrimmedLine(q + 1)) \/ RuleC(TrimmedLine(q + 1))
           /\ scanPc # "raised"
           /\ index > q =>
                 /\ quote_source_found
                 /\ quote_source = SourceOf(TrimmedLine(q + 1))
                 /\ explanation_lines = [i \in 1..(index - q - 1) |-> TrimmedLine(q + 1 + i)]

\* C15 witness: a page whose quote ends without the closing glyph, before a
\* source line with no dash, has been scanned: the source line was taken as
\* quote_source and the lines after it as the explanation.
C15_Witness ==
    /\ scanPc = "returned"
    /\ DetectedByLookAhead
    /\ TrimmedLine(Len(quote_lines) + 1)[1] # START_SOURCE_SYMBOL
    /\ page_result.content.quote_source = <<START_SOURCE_SYMBOL>> \o TrimmedLine(Len(quote_lines) + 1)
    /\ explanation_lines # <<>>
    /\ explanation_lines[1] = TrimmedLine(Len(quote_lines) + 2)

====
